---------------------------- MODULE Spec2Model ----------------------------
(***************************************************************************)
(* Fresco Retail product-return dashboard.                                 *)
(*                                                                         *)
(*   src/pages/2_analytics_and_insights.py   the analytics page: load the  *)
(*       dataset, resolve column names, derive Review_Level,               *)
(*       Income_Category and Tax_Level, compute one analysis view          *)
(*   src/prediction_page.py                  the prediction page: widgets, *)
(*       derived fields, the feature record, classifier inference          *)
(*   src/pages/1_Project_Information.py      the information page: load    *)
(*       the dataset and show its overview                                 *)
(*                                                                         *)
(* Numbers.  Every numeric value is held in hundredths: Num(9576) is       *)
(* 95.76, Num(3800000) is 38000.  A count (Quantity) is a plain integer.   *)
(***************************************************************************)
EXTENDS Integers, Sequences, FiniteSets, TLC

VARIABLES
    data,       \* the working dataframe (`data` of the page): column name -> cells
    call,       \* the last helper call: what was called, on what, the outcome
    file,       \* the table pd.read_excel reads at DATA_PATH, headers as written
    cache,      \* st.cache_data's entry for load_data
    page,       \* what the last run of the analytics page did and showed
    info,       \* what the last run of the information page did and showed
    widgets,    \* the prediction page's input widgets (session state)
    model,      \* st.cache_resource's entry for load_model
    pred        \* what the last run of the prediction page did and showed

vars == <<data, call, file, cache, page, info, widgets, model, pred>>
helperVars == <<data, call>>
analyticsVars == <<file, cache, page, info>>
predictionVars == <<widgets, model, pred>>

\* no helper call yet
NoCall ==
    [fn |-> "", col |-> "", cands |-> <<>>, before |-> <<>>, result |-> "", fault |-> ""]

---------------------------------------------------------------------------
(* Cells of a dataframe.                                                   *)

\* a float cell holding n/100
Num(n) == [k |-> "num", v |-> n, s |-> ""]
\* a float NaN cell: a missing value of a numeric column
NaN == [k |-> "nan", v |-> 0, s |-> ""]
\* Python None: a missing value of an object column
None == [k |-> "none", v |-> 0, s |-> ""]
\* a text cell
Str(t) == [k |-> "str", v |-> 0, s |-> t]

\* the sequences over S of length at most n
SeqsUpTo(S, n) == UNION {[1..m -> S] : m \in 0..n}

\* df.columns
columns(df) == DOMAIN df

\* df[name] = col: the frame with the column added or replaced
with_column(df, name, col) ==
    [c \in columns(df) \cup {name} |-> IF c = name THEN col ELSE df[c]]


---------------------------------------------------------------------------
(* float(x), as categorize_review and map_tax call it.                     *)

\* the texts Python's float() accepts, among the texts of the model
NumericTexts == {"3", "4.5", "2.5", "95.76", "349.97", "400", "nan"}

\* float(t) of an accepted text, in hundredths ("nan" is the float NaN)
text_value(t) ==
    CASE t = "3"      -> 300
      [] t = "4.5"    -> 450
      [] t = "2.5"    -> 250
      [] t = "95.76"  -> 9576
      [] t = "349.97" -> 34997
      [] t = "400"    -> 40000
      [] OTHER        -> 0

\* float(x): ok = FALSE when it raises (None: TypeError, other text: ValueError)
float(x) ==
    CASE x.k = "num"  -> [ok |-> TRUE, nan |-> FALSE, v |-> x.v]
      [] x.k = "nan"  -> [ok |-> TRUE, nan |-> TRUE, v |-> 0]
      [] x.k = "none" -> [ok |-> FALSE, nan |-> FALSE, v |-> 0]
      [] x.k = "str"  ->
            IF x.s \in NumericTexts
            THEN [ok |-> TRUE, nan |-> x.s = "nan", v |-> text_value(x.s)]
            ELSE [ok |-> FALSE, nan |-> FALSE, v |-> 0]

\* a float comparison f <= c: false when f is NaN
le(f, c) == ~f.nan /\ f.v <= c
\* a float comparison f == c: false when f is NaN
eq(f, c) == ~f.nan /\ f.v = c

---------------------------------------------------------------------------
(* ensure_review_level                                                     *)

ReviewLowMax == 200
ReviewMedium == 300

categorize_review_ge(x) ==
    LET f == float(x) IN
    IF ~f.ok THEN Str("Unknown")
    ELSE IF le(f, ReviewLowMax) THEN Str("Low")
    ELSE IF ~f.nan /\ f.v >= ReviewMedium THEN Str("Medium")
    ELSE Str("High")

categorize_review(x) ==
    LET f == float(x) IN
    IF ~f.ok THEN Str("Unknown")
    ELSE IF le(f, ReviewLowMax) THEN Str("Low")
    ELSE IF eq(f, ReviewMedium) THEN Str("Medium")
    ELSE Str("High")

\* ensure_review_level without its skip-if-exists test
ensure_review_level_always(df, reviews_col) ==
    [computed |-> TRUE,
     df |-> with_column(df, "Review_Level",
                [i \in 1..Len(df[reviews_col]) |-> categorize_review(df[reviews_col][i])])]

\* ensure_review_level(df, reviews_col): the frame it returns, and whether
\* line 50 ran (the column was computed) or the function returned at line 36
ensure_review_level(df, reviews_col) ==
    IF "Review_Level" \in columns(df) THEN [computed |-> FALSE, df |-> df]
    ELSE [computed |-> TRUE,
          df |-> with_column(df, "Review_Level",
                     [i \in 1..Len(df[reviews_col]) |->
                         categorize_review(df[reviews_col][i])])]

---------------------------------------------------------------------------
(* ensure_tax_level                                                        *)

TaxLowMax == 9576
TaxMediumMax == 34997

map_tax_lt(x) ==
    LET f == float(x) IN
    IF ~f.ok THEN Str("Unknown")
    ELSE IF ~f.nan /\ f.v < TaxLowMax THEN Str("Low")
    ELSE IF le(f, TaxMediumMax) THEN Str("Medium")
    ELSE Str("High")

map_tax(x) ==
    LET f == float(x) IN
    IF ~f.ok THEN Str("Unknown")
    ELSE IF le(f, TaxLowMax) THEN Str("Low")
    ELSE IF le(f, TaxMediumMax) THEN Str("Medium")
    ELSE Str("High")

\* ensure_tax_level(df, tax_col): the frame it returns, and whether line 85
\* ran (the column was computed) or the function returned at line 71
ensure_tax_level(df, tax_col) ==
    IF "Tax_Level" \in columns(df) THEN [computed |-> FALSE, df |-> df]
    ELSE [computed |-> TRUE,
          df |-> with_column(df, "Tax_Level",
                     [i \in 1..Len(df[tax_col]) |-> map_tax(df[tax_col][i])])]

---------------------------------------------------------------------------
(* ensure_income_category: pandas.cut over four bins whose last edge is    *)
(* the column's own maximum.                                               *)

\* Series.max(): the largest non-missing value, NaN when there is none
series_max(col) ==
    LET nums == {col[i].v : i \in {j \in 1..Len(col) : col[j].k = "num"}} IN
    IF nums = {} THEN NaN
    ELSE Num(CHOOSE m \in nums : \A n \in nums : n <= m)

\* labels = ['Low', 'Medium', 'High', 'Very High']
income_labels_swapped == <<"Low", "High", "Medium", "Very High">>

income_labels == <<"Low", "Medium", "High", "Very High">>

\* bins = [0, 38000, 69000, 99000, df[income_col].max()], for a maximum m
income_bins(m) == <<0, 3800000, 6900000, 9900000, m>>

\* bins.searchsorted(x, side="right"): the number of edges at or below x
searchsorted_right(bins, x) == Cardinality({i \in 1..Len(bins) : bins[i] <= x})

\* bins.searchsorted(x, side="left"), which cut uses for right-closed bins:
\* the number of edges strictly below x
searchsorted(bins, x) == Cardinality({i \in 1..Len(bins) : bins[i] < x})

\* the label pandas.cut(right=True, include_lowest=True) gives one cell
cut_cell(x, bins, labels) ==
    IF x.k # "num" THEN NaN
    ELSE LET ids == IF x.v = bins[1] THEN 1 ELSE searchsorted(bins, x.v) IN
         IF ids = Len(bins) \/ ids = 0 THEN NaN ELSE Str(labels[ids])

\* why pandas.cut raises on these edges ("" when it does not)
cut_fault(bins) ==
    IF \E i \in 1..(Len(bins) - 1) : bins[i + 1] < bins[i]
    THEN "ValueError: bins must increase monotonically"
    ELSE IF \E i, j \in 1..Len(bins) : i # j /\ bins[i] = bins[j]
    THEN "ValueError: Bin edges must be unique"
    ELSE ""

\* the outcomes of ensure_income_category(df, income_col): the frame with
\* Income_Category added (computed: line 62 ran), the frame as it was when
\* the column exists (line 59), or the exception pandas.cut raises (the
\* frame is then left as it was).  With no value in the column the last
\* edge is NaN: pandas 2 rejects the edges, pandas 1 labels nothing.
ensure_income_category(df, income_col) ==
    IF "Income_Category" \in columns(df)
    THEN {[fault |-> "", computed |-> FALSE, df |-> df]}
    ELSE LET col == df[income_col]
             m   == series_max(col)
         IN  IF m = NaN
             THEN {[fault |-> "ValueError: bins must increase monotonically",
                    computed |-> FALSE, df |-> df],
                   [fault |-> "", computed |-> TRUE,
                    df |-> with_column(df, "Income_Category", [i \in 1..Len(col) |-> NaN])]}
             ELSE IF cut_fault(income_bins(m.v)) # ""
             THEN {[fault |-> cut_fault(income_bins(m.v)), computed |-> FALSE, df |-> df]}
             ELSE {[fault |-> "", computed |-> TRUE,
                    df |-> with_column(df, "Income_Category",
                               [i \in 1..Len(col) |->
                                   cut_cell(col[i], income_bins(m.v), income_labels)])]}

---------------------------------------------------------------------------
(* first_col                                                               *)

\* Python's None as first_col returns it: no column has this name
NoCol == "<None>"

\* the loop of first_col, from candidate i on
RECURSIVE first_col_from(_, _, _)
first_col_from(df, candidates, i) ==
    IF i > Len(candidates) THEN NoCol
    ELSE IF candidates[i] \in columns(df) THEN candidates[i]
    ELSE first_col_from(df, candidates, i + 1)

\* first_col returning the last existing candidate instead of the first
first_col_last(df, candidates) ==
    LET hits == {i \in 1..Len(candidates) : candidates[i] \in columns(df)} IN
    IF hits = {} THEN NoCol
    ELSE candidates[CHOOSE i \in hits : \A j \in hits : j <= i]

first_col(df, candidates) == first_col_from(df, candidates, 1)

---------------------------------------------------------------------------
(* load_data                                                               *)

\* c.strip().replace(" ", "_"), on the headers of the model's files
normalize_name(c) ==
    CASE c = "Annual Income"       -> "Annual_Income"
      [] c = " Income "            -> "Income"
      [] c = "Payment mode"        -> "Payment_mode"
      [] c = "Store type"          -> "Store_type"
      [] c = "Product Subcategory" -> "Product_Subcategory"
      [] c = "product category"    -> "product_category"
      [] OTHER                     -> c

\* load_data: the table read, its column names normalised
load_data(f) ==
    [c \in {normalize_name(h) : h \in DOMAIN f} |->
        f[CHOOSE h \in DOMAIN f : normalize_name(h) = c]]

---------------------------------------------------------------------------
(* Column detection and derived columns of the analytics page.             *)

\* `if col:` on what first_col returned
Truthy(c) == c # NoCol /\ c # ""

\* lines 110-117
detect_columns(df) ==
    [return_col         |-> first_col(df, <<"Return", "return", "is_return", "Is_Return">>),
     payment_col        |-> first_col(df, <<"Payment_mode", "payment_mode", "Payment Method",
                                            "PaymentMethod">>),
     store_col          |-> first_col(df, <<"Store_type", "store_type", "Store Type", "Store">>),
     income_col         |-> first_col(df, <<"Income", "income", "Annual_Income",
                                            "Annual Income">>),
     product_cat_col    |-> first_col(df, <<"product_category", "Product_category",
                                            "Product Category", "Category">>),
     product_subcat_col |-> first_col(df, <<"Product_Subcategory", "product_subcategory",
                                            "Product Subcategory", "Subcategory">>),
     reviews_col        |-> first_col(df, <<"Reviews", "reviews", "Customer_Reviews", "Rating">>),
     tax_col            |-> first_col(df, <<"Tax", "tax", "Tax_Amount", "TaxAmount">>)]

\* one ensure_* call of a run: on which frame, whether the frame had the
\* target column, whether it came back unchanged, whether the column was
\* computed, and the exception raised ("" if none)
Entry(fn, target, on, before, after, computed, fault) ==
    [fn |-> fn, target |-> target, on |-> on, had |-> target \in columns(before),
     same |-> after = before, computed |-> computed, fault |-> fault]

\* lines 119-125: the outcomes of deriving the three columns of `data`; an
\* exception of ensure_income_category ends the run before ensure_tax_level
derive_columns(df, cols) ==
    LET r1 == IF Truthy(cols.reviews_col)
              THEN ensure_review_level(df, cols.reviews_col)
              ELSE [computed |-> FALSE, df |-> df]
        l1 == IF Truthy(cols.reviews_col)
              THEN <<Entry("ensure_review_level", "Review_Level", "data", df, r1.df,
                           r1.computed, "")>>
              ELSE <<>>
        O2 == IF Truthy(cols.income_col)
              THEN ensure_income_category(r1.df, cols.income_col)
              ELSE {[fault |-> "", computed |-> FALSE, df |-> r1.df]}
    IN  { LET l2 == IF Truthy(cols.income_col)
                    THEN <<Entry("ensure_income_category", "Income_Category", "data",
                                 r1.df, o2.df, o2.computed, o2.fault)>>
                    ELSE <<>>
              r3 == IF Truthy(cols.tax_col)
                    THEN ensure_tax_level(o2.df, cols.tax_col)
                    ELSE [computed |-> FALSE, df |-> o2.df]
              l3 == IF Truthy(cols.tax_col)
                    THEN <<Entry("ensure_tax_level", "Tax_Level", "data", o2.df, r3.df,
                                 r3.computed, "")>>
                    ELSE <<>>
          IN  IF o2.fault # ""
              THEN [fault |-> o2.fault, df |-> o2.df, log |-> l1 \o l2]
              ELSE [fault |-> "", df |-> r3.df, log |-> l1 \o l2 \o l3]
        : o2 \in O2 }

---------------------------------------------------------------------------
(* The analysis views: lines 171-492.                                      *)

\* the rows of col kept by mask, from row i on
RECURSIVE filter_from(_, _, _)
filter_from(col, mask, i) ==
    IF i > Len(col) THEN <<>>
    ELSE (IF mask[i] THEN <<col[i]>> ELSE <<>>) \o filter_from(col, mask, i + 1)

\* df[mask]
filter_rows(df, mask) == [c \in columns(df) |-> filter_from(df[c], mask, 1)]

\* the sum of the numbers of col at the rows idx
RECURSIVE sum_at(_, _)
sum_at(col, idx) ==
    IF idx = {} THEN 0
    ELSE LET i == CHOOSE j \in idx : TRUE IN col[i].v + sum_at(col, idx \ {i})

\* df.groupby(keys)[val].mean(): one row per combination of key values (a
\* row with a missing key is dropped), the mean held as sum over n
group_mean(df, keys, val) ==
    LET key_of(i) == [k \in 1..Len(keys) |-> df[keys[k]][i]]
        rows == {i \in 1..Len(df[val]) :
                    \A k \in 1..Len(keys) : df[keys[k]][i].k \notin {"nan", "none"}}
        nums(g) == {i \in rows : key_of(i) = g /\ df[val][i].k = "num"}
    IN  {[key |-> g, sum |-> sum_at(df[val], nums(g)), n |-> Cardinality(nums(g))] :
            g \in {key_of(i) : i \in rows}}

\* what a view did: status "computed" (a table was aggregated), "warning"
\* (skipped with st.warning), "info", or "fault" (an exception left the script)
Outcome(status, msg, keys, val, sort_by, table, log) ==
    [status |-> status, msg |-> msg, keys |-> keys, val |-> val, sort_by |-> sort_by,
     table |-> table, log |-> log]

Warned(msg, log) == Outcome("warning", msg, <<>>, "", <<>>, {}, log)
Faulted(msg, log) == Outcome("fault", msg, <<>>, "", <<>>, {}, log)

\* df.groupby(keys)[val].mean().reset_index().sort_values(sort_by): pandas
\* raises KeyError for a column the frame it is applied to does not have
aggregate(df, keys, val, sort_by, msg, log) ==
    IF \E k \in 1..Len(keys) : keys[k] \notin columns(df)
    THEN Faulted("KeyError: groupby key", log)
    ELSE IF val \notin columns(df)
    THEN Faulted("KeyError: value column", log)
    ELSE IF \E k \in 1..Len(sort_by) :
                sort_by[k] \notin {keys[j] : j \in 1..Len(keys)} \cup {val}
    THEN Faulted("KeyError: sort column", log)
    ELSE Outcome("computed", msg, keys, val, sort_by, group_mean(df, keys, val), log)

\* the texts of a subcategory cell that contain "wom", case ignored
WomenTexts == {"Women", "women", "Womens wear"}

\* lines 323: the rows whose subcategory names women's products
women_mask(df, subcat) ==
    [i \in 1..Len(df[subcat]) |-> df[subcat][i].k = "str" /\ df[subcat][i].s \in WomenTexts]

\* univariate 1 and 2 (lines 173-205): group by the payment or store column
view_by_column(df, cols, col, missing_msg) ==
    IF Truthy(col)
    THEN {aggregate(df, <<col>>, cols.return_col, <<>>, "", <<>>)}
    ELSE {Warned(missing_msg, <<>>)}

\* univariate 3 (lines 208-231)
view_income(df, cols) ==
    IF ~Truthy(cols.income_col) THEN {Warned("Income column not found.", <<>>)}
    ELSE IF "Income_Category" \in columns(df)
    THEN {aggregate(df, <<"Income_Category">>, cols.return_col, <<>>, "", <<>>)}
    ELSE { LET log == <<Entry("ensure_income_category", "Income_Category", "tmp", df, o.df,
                              o.computed, o.fault)>>
           IN  IF o.fault # "" THEN Faulted(o.fault, log)
               ELSE aggregate(o.df, <<"Income_Category">>, cols.return_col, <<>>, "", log)
         : o \in ensure_income_category(df, cols.income_col) }

\* univariate 4 (lines 234-270)
view_category(df, cols) ==
    IF Truthy(cols.product_cat_col) /\ Truthy(cols.product_subcat_col)
    THEN {aggregate(df, <<cols.product_cat_col, cols.product_subcat_col>>, cols.return_col,
                    <<cols.return_col>>, "", <<>>)}
    ELSE {Warned("Category or Subcategory column missing.", <<>>)}

\* univariate 5 (lines 273-293)
view_reviews(df, cols) ==
    IF ~Truthy(cols.reviews_col) THEN {Warned("Reviews column not found.", <<>>)}
    ELSE LET r == ensure_review_level(df, cols.reviews_col)
             log == <<Entry("ensure_review_level", "Review_Level", "tmp", df, r.df,
                            r.computed, "")>>
         IN  {aggregate(r.df, <<"Review_Level">>, cols.return_col, <<cols.return_col>>,
                        "", log)}

\* univariate 6 (lines 296-314)
view_tax(df, cols) ==
    IF ~Truthy(cols.tax_col) THEN {Warned("Tax column not found.", <<>>)}
    ELSE LET r == ensure_tax_level(df, cols.tax_col)
             log == <<Entry("ensure_tax_level", "Tax_Level", "tmp", df, r.df,
                            r.computed, "")>>
         IN  {aggregate(r.df, <<"Tax_Level">>, cols.return_col, <<cols.return_col>>, "", log)}

\* multivariate 1 (lines 319-359)
view_women(df, cols) ==
    LET subcat == cols.product_subcat_col IN
    IF ~Truthy(subcat)
    THEN {Warned("Product_Subcategory column not found. Cannot filter women's products.",
                 <<>>)}
    ELSE LET df_women == filter_rows(df, women_mask(df, subcat)) IN
         IF Len(df_women[subcat]) = 0
         THEN {Warned("No rows found for women's products based on Product_Subcategory content.",
                      <<>>)}
         ELSE LET r == IF Truthy(cols.reviews_col)
                       THEN ensure_review_level(df_women, cols.reviews_col)
                       ELSE [computed |-> FALSE, df |-> df_women]
                  log == IF Truthy(cols.reviews_col)
                         THEN <<Entry("ensure_review_level", "Review_Level", "df_women",
                                      df_women, r.df, r.computed, "")>>
                         ELSE <<>>
                  msg == IF Truthy(cols.reviews_col) THEN ""
                         ELSE "No Reviews column found to derive Review_Level."
              IN  IF "Review_Level" \in columns(r.df)
                  THEN {aggregate(r.df, <<subcat, "Review_Level">>, cols.return_col,
                                  <<subcat, "Review_Level">>, msg, log)}
                  ELSE {Warned("Review_Level not available to calculate return by satisfaction level.",
                               log)}

\* multivariate 2 (lines 362-399): fixed column names
view_reviews_by_category(df) ==
    IF {"product_category", "Reviews", "Return"} \ columns(df) # {}
    THEN {Warned("Missing columns for this analysis", <<>>)}
    ELSE LET r == ensure_review_level(df, "Reviews")
             log == <<Entry("ensure_review_level", "Review_Level", "tmp", df, r.df,
                            r.computed, "")>>
         IN  {aggregate(r.df, <<"product_category", "Review_Level">>, "Return",
                        <<"product_category", "Review_Level">>, "", log)}

\* multivariate 3 (lines 402-448): fixed column names
view_income_by_category(df) ==
    IF {"product_category", "Income", "Return"} \ columns(df) # {}
    THEN {Warned("Missing columns for this analysis", <<>>)}
    ELSE IF "Income_Category" \in columns(df)
    THEN {aggregate(df, <<"Income_Category", "product_category">>, "Return", <<>>, "", <<>>)}
    ELSE { LET log == <<Entry("ensure_income_category", "Income_Category", "tmp", df, o.df,
                              o.computed, o.fault)>>
           IN  IF o.fault # "" THEN Faulted(o.fault, log)
               ELSE aggregate(o.df, <<"Income_Category", "product_category">>, "Return",
                              <<>>, "", log)
         : o \in ensure_income_category(df, "Income") }

\* multivariate 4 (lines 451-489): sorted by the literal "Return"
view_tax_by_subcategory(df, cols) ==
    IF Truthy(cols.tax_col) /\ Truthy(cols.product_subcat_col)
    THEN LET r == ensure_tax_level(df, cols.tax_col)
             log == <<Entry("ensure_tax_level", "Tax_Level", "tmp", df, r.df,
                            r.computed, "")>>
         IN  {aggregate(r.df, <<"Tax_Level", cols.product_subcat_col>>, cols.return_col,
                        <<"Return">>, "", log)}
    ELSE {Warned("Tax column or Product_Subcategory column missing.", <<>>)}

\* the sidebar: the analysis type and the number of the question chosen
Views ==
    {[analysis_type |-> "Univariate Analysis", question |-> q] : q \in 1..6}
    \cup {[analysis_type |-> "Multivariate Analysis", question |-> q] : q \in 1..4}

\* lines 171-492: the outcomes of the view the sidebar selects
view(sel, df, cols) ==
    IF sel.analysis_type = "Univariate Analysis"
    THEN CASE sel.question = 1 ->
                  view_by_column(df, cols, cols.payment_col, "Payment_mode column not found.")
           [] sel.question = 2 ->
                  view_by_column(df, cols, cols.store_col, "Store_type column not found.")
           [] sel.question = 3 -> view_income(df, cols)
           [] sel.question = 4 -> view_category(df, cols)
           [] sel.question = 5 -> view_reviews(df, cols)
           [] OTHER -> view_tax(df, cols)
    ELSE CASE sel.question = 1 -> view_women(df, cols)
           [] sel.question = 2 -> view_reviews_by_category(df)
           [] sel.question = 3 -> view_income_by_category(df)
           [] OTHER -> view_tax_by_subcategory(df, cols)

---------------------------------------------------------------------------
(* One run of the analytics page: the script from top to bottom.           *)

NoCols == detect_columns(<<>>)
NoSel == [analysis_type |-> "", question |-> 0]
NoView == Outcome("none", "", <<>>, "", <<>>, {}, <<>>)

\* before the page has run
NoPage ==
    [stage |-> "none", error |-> "", cols |-> NoCols, sel |-> NoSel, view |-> NoView,
     log |-> <<>>, steps |-> <<>>]

\* a failed load after which the script goes on with an empty dataset
load_failed_continues ==
    [page |-> [NoPage EXCEPT !.stage = "stopped",
                             !.error = "No 'Return' column found in the dataset.",
                             !.steps = <<"load_data", "first_col", "derive", "return_check">>],
     data |-> <<>>]

\* lines 100-104 when load_data raises: st.error and st.stop
load_failed ==
    [page |-> [NoPage EXCEPT !.stage = "stopped", !.error = "Failed to load data",
                             !.steps = <<"load_data">>],
     data |-> <<>>]

\* lines 106-492 on the loaded frame df, the sidebar at sel: what the run
\* shows and the `data` it leaves.  stage "fault": an exception left the
\* script; "stopped": st.stop(); "done": the script ran to its end.
run_page(df, sel) ==
    LET cols == detect_columns(df) IN
    UNION {
        IF d.fault # ""
        THEN {[page |-> [NoPage EXCEPT !.stage = "fault", !.error = d.fault, !.cols = cols,
                                       !.log = d.log,
                                       !.steps = <<"load_data", "first_col", "derive">>],
               data |-> d.df]}
        ELSE IF cols.return_col = NoCol
        THEN {[page |-> [NoPage EXCEPT !.stage = "stopped",
                                       !.error = "No 'Return' column found in the dataset.",
                                       !.cols = cols, !.log = d.log,
                                       !.steps = <<"load_data", "first_col", "derive",
                                                   "return_check">>],
               data |-> d.df]}
        ELSE {[page |-> [stage |-> IF v.status = "fault" THEN "fault" ELSE "done",
                         error |-> IF v.status = "fault" THEN v.msg ELSE "",
                         cols |-> cols, sel |-> sel, view |-> v, log |-> d.log \o v.log,
                         steps |-> <<"load_data", "first_col", "derive", "return_check",
                                     "view">>],
               data |-> d.df] : v \in view(sel, d.df, cols)}
        : d \in derive_columns(df, cols) }

\* st.cache_data before the first successful load
NoCache == [loaded |-> FALSE, df |-> <<>>]

---------------------------------------------------------------------------
(* The information page: src/pages/1_Project_Information.py.               *)

\* what load_data is called on (line 32): the default path, or an uploaded
\* CSV or Excel file
Sources == {"file_path", "csv", "xlsx"}

\* before the page has run.  cached: the sources st.cache_data holds a frame
\* for; source: what the last run loaded; shape: df.shape as shown
NoInfo ==
    [stage |-> "none", error |-> "", steps |-> <<>>, source |-> "", cached |-> {},
     shape |-> <<0, 0>>]

\* df.shape[0]
row_count(df) ==
    IF columns(df) = {} THEN 0 ELSE Len(df[CHOOSE c \in columns(df) : TRUE])

\* one run of the script, lines 18-99, loading f from source: load_data is
\* called outside any try block (line 32), so an exception of the read
\* leaves the script there and Streamlit shows it; otherwise the overview,
\* the preview, the column types and, with the checkbox ticked, the summary
\* statistics are shown.  load_data normalises the headers as the analytics
\* page's does (line 28).
run_info(prev, f, source, read_ok, summary) ==
    IF source \notin prev.cached /\ ~read_ok
    THEN [NoInfo EXCEPT !.stage = "fault", !.error = "exception in load_data",
                        !.steps = <<"load_data">>, !.source = source,
                        !.cached = prev.cached]
    ELSE LET df == load_data(f) IN
         [NoInfo EXCEPT !.stage = "done",
                        !.steps = <<"load_data", "overview", "preview", "dtypes">>
                                  \o (IF summary THEN <<"summary">> ELSE <<>>),
                        !.source = source,
                        !.cached = prev.cached \cup {source},
                        !.shape = <<row_count(df), Cardinality(columns(df))>>]

---------------------------------------------------------------------------
(* The prediction page: src/prediction_page.py.                            *)

\* category_map, lines 40-47
category_map ==
    [c \in {"Books", "Clothing", "Home and kitchen", "Footwear", "Bags", "Electronics"} |->
        CASE c = "Books" -> <<"Fiction", "DIY", "Non-Fiction", "Academic">>
          [] c = "Clothing" -> <<"Women", "Mens">>
          [] c = "Home and kitchen" -> <<"Bath", "Kitchen", "Furnishing", "Tools">>
          [] c = "Footwear" -> <<"Mens", "Women", "Kids">>
          [] c = "Bags" -> <<"Women", "Mens">>
          [] OTHER -> <<"Mobiles", "Audio and video", "Computers", "Cameras",
                        "Personal Appliances">>]

\* the values the model's user gives the widgets, each within the widget's
\* range: Quantity 1..10, Unit Price 0..20000, Tax 0..2000, Reviews 1..5,
\* Income 0..300000, and two of the payment modes and of the cities
QuantityValues == {1, 3, 10}
UnitPriceValues == {0, 77617, 2000000}
TaxInputs == {0, 24124}
ReviewInputs == {4, 5}
IncomeInputs == {0, 7051688}
PaymentModes == {"Mobile Payments", "Cash"}
Cities == {"Hyderabad", "Mumbai"}

\* the widgets on the first run: the sliders' defaults, the first options
DefaultWidgets ==
    [Quantity |-> 3, Unit_Price |-> 77617, Tax |-> 24124, Reviews |-> 4,
     Income |-> 7051688, product_category |-> "Books", Product_Subcategory |-> "Fiction",
     Payment_mode |-> "Mobile Payments", city |-> "Hyderabad"]

\* line 62
price(Quantity, Unit_Price) == Quantity * Unit_Price

\* total_price without the tax
total_price_no_tax(Price, Tax) == Price

\* line 63
total_price(Price, Tax) == Price + Tax

\* Tax / Price, without the offset
tax_ratio_no_offset(Tax, Price) == [num |-> Tax, den |-> Price]

\* line 65: Tax / (Price + 1), held as numerator over denominator (both in
\* hundredths); Python raises ZeroDivisionError on a denominator of 0
tax_ratio(Tax, Price) == [num |-> Tax, den |-> Price + 100]

\* lines 94-107: the single-row feature record
input_data(w) ==
    LET Price == price(w.Quantity, w.Unit_Price) IN
    [Quantity |-> w.Quantity, Unit_Price |-> w.Unit_Price, Price |-> Price, Tax |-> w.Tax,
     Reviews |-> w.Reviews, Income |-> w.Income,
     total_price |-> total_price(Price, w.Tax), tax_ratio |-> tax_ratio(w.Tax, Price),
     product_category |-> w.product_category,
     Product_Subcategory |-> w.Product_Subcategory,
     Payment_mode |-> w.Payment_mode, city |-> w.city]

\* what the classifier may answer: predict_proba a probability of return (in
\* percent) or an exception, predict a label or an exception
Probabilities == {49, 50}
Labels == {0, 1}
\* no answer: the call raised an exception
Raises == -1
\* no answer: the call was not made in this run
NotCalled == -2

\* before the page has run.  read_artifact: load_model's body ran (joblib.load
\* read the artifact); proba, label: what predict_proba and predict answered;
\* passed: the record they were given; shown_prob, result: what is displayed
NoRun ==
    [stage |-> "none", error |-> "", read_artifact |-> FALSE, built |-> FALSE,
     input_data |-> input_data(DefaultWidgets), clicked |-> FALSE,
     proba_calls |-> 0, predict_calls |-> 0, proba |-> NotCalled, label |-> NotCalled,
     passed |-> input_data(DefaultWidgets), shown_prob |-> -1, result |-> ""]

\* the outcome shown for the classifier's label alone
displayed_outcome_label_only(label, proba) ==
    IF label = 1 THEN "RETURN" ELSE "NO RETURN"

\* lines 124-127: RETURN on a label of 1 or a probability of at least 0.5
displayed_outcome(label, proba) ==
    IF label = 1 \/ proba >= 50 THEN "RETURN" ELSE "NO RETURN"

\* the handler showing a result from the probability when predict raises
predict_handler_fallback(run, proba, label) ==
    IF proba = Raises
    THEN [run EXCEPT !.stage = "stopped", !.error = "Prediction error", !.clicked = TRUE,
                     !.proba_calls = 1, !.proba = Raises, !.passed = run.input_data]
    ELSE [run EXCEPT !.clicked = TRUE, !.proba_calls = 1, !.predict_calls = 1,
                     !.proba = proba, !.label = label, !.passed = run.input_data,
                     !.shown_prob = proba,
                     !.result = displayed_outcome(IF label = Raises THEN 0 ELSE label, proba)]

\* lines 114-127 with the Predict button pressed: proba and label are what
\* predict_proba and predict answer; an exception of either ends the run at
\* st.stop() (line 120), before anything of lines 122-127 is shown
predict_handler(run, proba, label) ==
    IF proba = Raises
    THEN [run EXCEPT !.stage = "stopped", !.error = "Prediction error", !.clicked = TRUE,
                     !.proba_calls = 1, !.proba = Raises, !.passed = run.input_data]
    ELSE IF label = Raises
    THEN [run EXCEPT !.stage = "stopped", !.error = "Prediction error", !.clicked = TRUE,
                     !.proba_calls = 1, !.predict_calls = 1, !.proba = proba,
                     !.label = Raises, !.passed = run.input_data]
    ELSE [run EXCEPT !.clicked = TRUE, !.proba_calls = 1, !.predict_calls = 1,
                     !.proba = proba, !.label = label, !.passed = run.input_data,
                     !.shown_prob = proba, !.result = displayed_outcome(label, proba)]

\* load_model reading the artifact on every run
load_model_uncached(m) ==
    {[loaded |-> TRUE, read |-> TRUE], [loaded |-> FALSE, read |-> TRUE]}

\* lines 27-32, load_model under st.cache_resource, the cache entry at m: a
\* cached classifier is returned without reading the artifact; otherwise
\* joblib.load reads it, and may raise (an exception is not cached)
load_model(m) ==
    IF m = "loaded" THEN {[loaded |-> TRUE, read |-> FALSE]}
    ELSE {[loaded |-> TRUE, read |-> TRUE], [loaded |-> FALSE, read |-> TRUE]}

\* one run of the script with the widgets at w: st.stop after a failed
\* load_model (lines 31-35), else the derived fields, the record and its
\* preview, and the Predict handler when the button was pressed
run_script(w, loaded, button, proba, label) ==
    IF ~loaded
    THEN [NoRun EXCEPT !.stage = "stopped", !.error = "Failed loading model"]
    ELSE IF tax_ratio(w.Tax, price(w.Quantity, w.Unit_Price)).den = 0
    THEN [NoRun EXCEPT !.stage = "fault", !.error = "ZeroDivisionError"]
    ELSE LET run == [NoRun EXCEPT !.stage = "done", !.built = TRUE,
                                  !.input_data = input_data(w)]
         IN  IF button THEN predict_handler(run, proba, label) ELSE run

\* a run of the script after the widgets became w: load_model returns the
\* cached classifier, or reads the artifact, which may fail
Rerun(w, button, proba, label) ==
    \E l \in load_model(model) :
        /\ widgets' = w
        /\ model' = IF l.loaded THEN "loaded" ELSE model
        /\ pred' = [run_script(w, l.loaded, button, proba, label)
                       EXCEPT !.read_artifact = l.read]
        /\ UNCHANGED <<helperVars, analyticsVars>>

\* opening or reloading the page
OpenPage == Rerun(widgets, FALSE, Raises, Raises)

SetQuantity ==
    \E q \in QuantityValues : Rerun([widgets EXCEPT !.Quantity = q], FALSE, Raises, Raises)
SetUnitPrice ==
    \E p \in UnitPriceValues : Rerun([widgets EXCEPT !.Unit_Price = p], FALSE, Raises, Raises)
SetTax ==
    \E t \in TaxInputs : Rerun([widgets EXCEPT !.Tax = t], FALSE, Raises, Raises)
SetReviews ==
    \E r \in ReviewInputs : Rerun([widgets EXCEPT !.Reviews = r], FALSE, Raises, Raises)
SetIncome ==
    \E i \in IncomeInputs : Rerun([widgets EXCEPT !.Income = i], FALSE, Raises, Raises)

\* the subcategory selectbox keeping its selection whatever its options
selectbox_keeps(options, previous, current) == current

\* st.selectbox("Product Subcategory", sub_options), line 81, the widget
\* having held `current` over the options `previous`: with the same options
\* it keeps its selection, with other options it is a new widget and starts
\* at its first option
selectbox(options, previous, current) ==
    IF options = previous THEN current ELSE options[1]

\* choosing a product category: sub_options follows it (lines 77-81)
SelectCategory ==
    \E c \in DOMAIN category_map :
        Rerun([widgets EXCEPT
                  !.product_category = c,
                  !.Product_Subcategory =
                      selectbox(category_map[c], category_map[widgets.product_category],
                                widgets.Product_Subcategory)],
              FALSE, Raises, Raises)
SelectSubcategory ==
    \E i \in 1..Len(category_map[widgets.product_category]) :
        Rerun([widgets EXCEPT
                  !.Product_Subcategory = category_map[widgets.product_category][i]],
              FALSE, Raises, Raises)
SelectPaymentMode ==
    \E m \in PaymentModes : Rerun([widgets EXCEPT !.Payment_mode = m], FALSE, Raises, Raises)
SelectCity ==
    \E c \in Cities : Rerun([widgets EXCEPT !.city = c], FALSE, Raises, Raises)

\* pressing Predict
ClickPredict ==
    \E proba \in Probabilities \cup {Raises}, label \in Labels \cup {Raises} :
        Rerun(widgets, TRUE, proba, label)

InitPredict ==
    /\ widgets = DefaultWidgets /\ model = "unloaded" /\ pred = NoRun
    /\ data = <<>> /\ call = NoCall
    /\ file = <<>> /\ cache = NoCache /\ page = NoPage /\ info = NoInfo

NextPredict ==
    \/ OpenPage
    \/ SetQuantity \/ SetUnitPrice \/ SetTax \/ SetReviews \/ SetIncome
    \/ SelectCategory \/ SelectSubcategory \/ SelectPaymentMode \/ SelectCity
    \/ ClickPredict

SpecPredict == InitPredict /\ [][NextPredict]_vars

---------------------------------------------------------------------------
(* The dataset files of the model: a header layout over a list of rows.    *)

\* one row: its return flag, payment mode, store type, income, category,
\* subcategory, rating and tax, and the levels a file may already carry
Row(ret, income, subcat, reviews, tax) ==
    [ret |-> Num(ret), pay |-> Str("Cash"), store |-> Str("Online"), income |-> income,
     cat |-> Str("Bags"), subcat |-> Str(subcat), reviews |-> reviews, tax |-> tax,
     rl |-> Str("High"), ic |-> Str("Low"), tl |-> Str("High")]

RowLists ==
    {<<>>,
     <<Row(100, Num(3800000), "Women", Num(200), Num(9576)),
       Row(0, Num(20000000), "Mens", Num(400), Num(34998)),
       Row(100, Num(-100), "Women", Str("abc"), NaN)>>,
     <<Row(0, Num(1000000), "Women", Num(300), Num(24124)),
       Row(100, Num(5000000), "Kids", Num(250), Num(0))>>,
     <<Row(100, Num(9900001), "Mens", Num(500), Num(9577)),
       Row(0, NaN, "Kids", None, Str("95.76"))>>}

\* header -> the field of the row the column holds
Layouts ==
    {\* the names the page looks for first
     [h \in {"Return", "Payment_mode", "Store_type", "Income", "product_category",
             "Product_Subcategory", "Reviews", "Tax"} |->
        CASE h = "Return" -> "ret" [] h = "Payment_mode" -> "pay"
          [] h = "Store_type" -> "store" [] h = "Income" -> "income"
          [] h = "product_category" -> "cat" [] h = "Product_Subcategory" -> "subcat"
          [] h = "Reviews" -> "reviews" [] OTHER -> "tax"],
     \* headers written with spaces
     [h \in {"Return", "Payment mode", "Store type", " Income ", "product category",
             "Product Subcategory", "Reviews", "Tax"} |->
        CASE h = "Return" -> "ret" [] h = "Payment mode" -> "pay"
          [] h = "Store type" -> "store" [] h = " Income " -> "income"
          [] h = "product category" -> "cat" [] h = "Product Subcategory" -> "subcat"
          [] h = "Reviews" -> "reviews" [] OTHER -> "tax"],
     \* the last candidate of every list
     [h \in {"Is_Return", "PaymentMethod", "Store", "Annual Income", "Category",
             "Subcategory", "Rating", "TaxAmount"} |->
        CASE h = "Is_Return" -> "ret" [] h = "PaymentMethod" -> "pay"
          [] h = "Store" -> "store" [] h = "Annual Income" -> "income"
          [] h = "Category" -> "cat" [] h = "Subcategory" -> "subcat"
          [] h = "Rating" -> "reviews" [] OTHER -> "tax"],
     \* the first names but for the return column
     [h \in {"is_return", "Payment_mode", "Store_type", "Income", "product_category",
             "Product_Subcategory", "Reviews", "Tax"} |->
        CASE h = "is_return" -> "ret" [] h = "Payment_mode" -> "pay"
          [] h = "Store_type" -> "store" [] h = "Income" -> "income"
          [] h = "product_category" -> "cat" [] h = "Product_Subcategory" -> "subcat"
          [] h = "Reviews" -> "reviews" [] OTHER -> "tax"],
     \* no return column
     [h \in {"Payment_mode", "Income", "Reviews", "Tax"} |->
        CASE h = "Payment_mode" -> "pay" [] h = "Income" -> "income"
          [] h = "Reviews" -> "reviews" [] OTHER -> "tax"],
     \* only the return column and the store type
     [h \in {"return", "store_type"} |-> IF h = "return" THEN "ret" ELSE "store"],
     \* a file that already carries the three derived columns
     [h \in {"Return", "Income", "product_category", "Product_Subcategory", "Reviews", "Tax",
             "Review_Level", "Income_Category", "Tax_Level"} |->
        CASE h = "Return" -> "ret" [] h = "Income" -> "income"
          [] h = "product_category" -> "cat" [] h = "Product_Subcategory" -> "subcat"
          [] h = "Reviews" -> "reviews" [] h = "Tax" -> "tax"
          [] h = "Review_Level" -> "rl" [] h = "Income_Category" -> "ic"
          [] OTHER -> "tl"],
     \* a file that already carries Tax_Level only
     [h \in {"Return", "Income", "Product_Subcategory", "Reviews", "Tax", "Tax_Level"} |->
        CASE h = "Return" -> "ret" [] h = "Income" -> "income"
          [] h = "Product_Subcategory" -> "subcat" [] h = "Reviews" -> "reviews"
          [] h = "Tax" -> "tax" [] OTHER -> "tl"],
     \* a Review_Level column and no rating column
     [h \in {"Return", "Product_Subcategory", "Review_Level"} |->
        CASE h = "Return" -> "ret" [] h = "Product_Subcategory" -> "subcat"
          [] OTHER -> "rl"]}

\* the table of a layout over a list of rows
table_of(layout, rows) ==
    [h \in DOMAIN layout |-> [i \in 1..Len(rows) |-> rows[i][layout[h]]]]

Files == {table_of(l, rows) : l \in Layouts, rows \in RowLists}

---------------------------------------------------------------------------
(* Spec: the analytics page, run after run, over one dataset file.         *)

Init ==
    /\ file \in Files
    /\ cache = NoCache
    /\ data = <<>>
    /\ page = NoPage
    /\ info = NoInfo
    /\ call = NoCall
    /\ widgets = DefaultWidgets /\ model = "unloaded" /\ pred = NoRun

\* a run in which load_data raises: nothing is cached (lines 100-104)
RunLoadFails ==
    /\ ~cache.loaded
    /\ page' = load_failed.page
    /\ data' = load_failed.data
    /\ UNCHANGED <<file, cache, info, call, predictionVars>>

\* a run with the sidebar at sel: load_data reads the file or returns the
\* cached frame, and the script goes on with a copy of it
RunPage ==
    \E sel \in Views :
        LET df == IF cache.loaded THEN cache.df ELSE load_data(file) IN
        \E r \in run_page(df, sel) :
            /\ cache' = [loaded |-> TRUE, df |-> df]
            /\ page' = r.page
            /\ data' = r.data
            /\ UNCHANGED <<file, info, call, predictionVars>>

Next == RunLoadFails \/ RunPage

Spec == Init /\ [][Next]_vars

---------------------------------------------------------------------------
(* SpecLoad: the three pages of the application over one dataset file and  *)
(* one classifier artifact, each read of which may fail.                   *)

\* a run of the information page
RunInfoPage ==
    \E source \in Sources, read_ok \in BOOLEAN, summary \in BOOLEAN :
        /\ info' = run_info(info, file, source, read_ok, summary)
        /\ UNCHANGED <<file, cache, page, helperVars, predictionVars>>

\* the dataset files of SpecLoad: the files whose headers are written with
\* spaces
LoadFiles == {f \in Files : "Payment mode" \in DOMAIN f}

InitLoad ==
    /\ file \in LoadFiles
    /\ cache = NoCache /\ data = <<>> /\ page = NoPage /\ info = NoInfo
    /\ call = NoCall
    /\ widgets = DefaultWidgets /\ model = "unloaded" /\ pred = NoRun

NextLoad ==
    \/ RunLoadFails
    \/ RunPage
    \/ RunInfoPage
    \/ OpenPage
    \/ ClickPredict

SpecLoad == InitLoad /\ [][NextLoad]_vars

---------------------------------------------------------------------------
(* The derivation functions on their own: SpecDerive draws a frame with    *)
(* one source column and calls the matching ensure_* function on it.       *)

MaxRows == 3

IncomeValues ==
    {Num(-100), Num(0), Num(1), Num(1000000), Num(3800000), Num(3800001),
     Num(5000000), Num(6900000), Num(6900001), Num(9000000), Num(9900000),
     Num(9900001), Num(20000000), NaN}

ReviewValues ==
    {Num(100), Num(200), Num(250), Num(300), Num(301), Num(400), Num(500),
     NaN, None, Str("abc"), Str(""), Str("3"), Str("4.5")}

TaxValues ==
    {Num(0), Num(9575), Num(9576), Num(9577), Num(34997), Num(34998),
     Num(24124), NaN, None, Str("abc"), Str("95.76"), Str("400")}

InitDerive ==
    /\ call = NoCall
    /\ file = <<>> /\ cache = NoCache /\ page = NoPage /\ info = NoInfo
    /\ widgets = DefaultWidgets /\ model = "unloaded" /\ pred = NoRun
    /\ \/ \E col \in SeqsUpTo(IncomeValues, MaxRows) : data = [c \in {"Income"} |-> col]
       \/ \E col \in SeqsUpTo(ReviewValues, MaxRows) : data = [c \in {"Reviews"} |-> col]
       \/ \E col \in SeqsUpTo(TaxValues, MaxRows) : data = [c \in {"Tax"} |-> col]

CallEnsureIncomeCategory ==
    /\ "Income" \in columns(data)
    /\ \E o \in ensure_income_category(data, "Income") :
          /\ data' = o.df
          /\ call' = [NoCall EXCEPT !.fn = "ensure_income_category", !.col = "Income",
                                    !.before = data, !.fault = o.fault]
    /\ UNCHANGED <<analyticsVars, predictionVars>>

CallEnsureReviewLevel ==
    /\ "Reviews" \in columns(data)
    /\ data' = ensure_review_level(data, "Reviews").df
    /\ call' = [NoCall EXCEPT !.fn = "ensure_review_level", !.col = "Reviews",
                              !.before = data]
    /\ UNCHANGED <<analyticsVars, predictionVars>>

CallEnsureTaxLevel ==
    /\ "Tax" \in columns(data)
    /\ data' = ensure_tax_level(data, "Tax").df
    /\ call' = [NoCall EXCEPT !.fn = "ensure_tax_level", !.col = "Tax", !.before = data]
    /\ UNCHANGED <<analyticsVars, predictionVars>>

NextDerive ==
    \/ CallEnsureIncomeCategory
    \/ CallEnsureReviewLevel
    \/ CallEnsureTaxLevel

SpecDerive == InitDerive /\ [][NextDerive]_vars

---------------------------------------------------------------------------
(* first_col on its own: SpecResolver draws a frame over some of the       *)
(* names and a list of candidates, and calls first_col on them.            *)

MaxCands == 4

ColumnNames == {"Return", "return", "is_return", "Is_Return"}
CandidateNames == ColumnNames \cup {"Rating"}

InitResolver ==
    /\ \E candidates \in SeqsUpTo(CandidateNames, MaxCands) :
          call = [NoCall EXCEPT !.cands = candidates]
    /\ \E S \in SUBSET ColumnNames : data = [c \in S |-> <<>>]
    /\ file = <<>> /\ cache = NoCache /\ page = NoPage /\ info = NoInfo
    /\ widgets = DefaultWidgets /\ model = "unloaded" /\ pred = NoRun

CallFirstCol ==
    /\ call.fn = ""
    /\ call' = [call EXCEPT !.fn = "first_col", !.before = data,
                            !.result = first_col(data, call.cands)]
    /\ UNCHANGED <<data, analyticsVars, predictionVars>>

NextResolver == CallFirstCol

SpecResolver == InitResolver /\ [][NextResolver]_vars

---------------------------------------------------------------------------
(* What the claims read of a call.                                         *)

\* the last call was fn, on a frame that did not have the target column yet
Derived(fn, target) == call.fn = fn /\ target \notin columns(call.before)

\* the source column the last call read, and the column it derived
SourceCol == call.before[call.col]
IncomeCategory == data["Income_Category"]
ReviewLevel == data["Review_Level"]
TaxLevel == data["Tax_Level"]

\* the dataset maximum M of the income column, in hundredths (-1 if none)
MaxIncome ==
    IF series_max(SourceCol) = NaN THEN -1 ELSE series_max(SourceCol).v

\* a cell that holds a number: a float, or a text float() converts
IsNumber(c) == c.k = "num" \/ (c.k = "str" /\ c.s \in NumericTexts \ {"nan"})
NumberOf(c) == IF c.k = "num" THEN c.v ELSE text_value(c.s)
\* a cell that float() cannot convert
Unparseable(c) == c.k = "none" \/ (c.k = "str" /\ c.s \notin NumericTexts)

\* Low < Medium < High < Very High
Rank(l) ==
    CASE l = Str("Low") -> 1 [] l = Str("Medium") -> 2 [] l = Str("High") -> 3
      [] l = Str("Very High") -> 4 [] OTHER -> 0

---------------------------------------------------------------------------
(* C1  Income_Category bins.                                               *)

\* C1 as claimed: with a dataset maximum M > 99000, ensure_income_category
\* labels every income v in [0, M] by left-closed bins: [0, 38000) Low,
\* [38000, 69000) Medium, [69000, 99000) High, [99000, M] Very High.
C1_LeftClosedBins ==
    (Derived("ensure_income_category", "Income_Category") /\ MaxIncome > 9900000) =>
        /\ call.fault = ""
        /\ \A i \in 1..Len(SourceCol) :
              LET v == SourceCol[i].v IN
              (SourceCol[i].k = "num" /\ 0 <= v /\ v <= MaxIncome) =>
                  IncomeCategory[i] =
                      IF v < 3800000 THEN Str("Low")
                      ELSE IF v < 6900000 THEN Str("Medium")
                      ELSE IF v < 9900000 THEN Str("High")
                      ELSE Str("Very High")

\* C1 amended: with a dataset maximum M > 99000, ensure_income_category
\* labels every income v in [0, M] by right-closed bins: [0, 38000] Low,
\* (38000, 69000] Medium, (69000, 99000] High, (99000, M] Very High; so
\* 38000 is Low, 69000 is Medium, 99000 is High, 0 is Low, M is Very High.
C1_RightClosedBins ==
    (Derived("ensure_income_category", "Income_Category") /\ MaxIncome > 9900000) =>
        /\ call.fault = ""
        /\ Len(IncomeCategory) = Len(SourceCol)
        /\ \A i \in 1..Len(SourceCol) :
              LET v == SourceCol[i].v IN
              (SourceCol[i].k = "num" /\ 0 <= v /\ v <= MaxIncome) =>
                  IncomeCategory[i] =
                      IF v <= 3800000 THEN Str("Low")
                      ELSE IF v <= 6900000 THEN Str("Medium")
                      ELSE IF v <= 9900000 THEN Str("High")
                      ELSE Str("Very High")

\* a call that labelled the edges 0, 38000 and the maximum 200000
C1_Witness ==
    /\ Derived("ensure_income_category", "Income_Category")
    /\ call.fault = ""
    /\ SourceCol = <<Num(0), Num(3800000), Num(20000000)>>
    /\ IncomeCategory = <<Str("Low"), Str("Low"), Str("Very High")>>

---------------------------------------------------------------------------
(* C2  Review_Level mapping.                                               *)

\* C2: categorize_review maps every numeric rating v <= 2 to Low, v = 3 to
\* Medium, v > 3 to High, and a value that is no number to Unknown; a row's
\* level depends on that row's value alone.
C2_ReviewLevelMapping ==
    Derived("ensure_review_level", "Review_Level") =>
        /\ Len(ReviewLevel) = Len(SourceCol)
        /\ \A i \in 1..Len(SourceCol) :
              LET c == SourceCol[i] IN
              /\ (IsNumber(c) /\ NumberOf(c) <= 200) => ReviewLevel[i] = Str("Low")
              /\ (IsNumber(c) /\ NumberOf(c) = 300) => ReviewLevel[i] = Str("Medium")
              /\ (IsNumber(c) /\ NumberOf(c) > 300) => ReviewLevel[i] = Str("High")
              /\ Unparseable(c) => ReviewLevel[i] = Str("Unknown")
        /\ \A i, j \in 1..Len(SourceCol) :
              SourceCol[i] = SourceCol[j] => ReviewLevel[i] = ReviewLevel[j]

\* a call that derived all four levels, one from an unparseable text
C2_Witness ==
    /\ Derived("ensure_review_level", "Review_Level")
    /\ SourceCol = <<Num(200), Num(300), Str("abc")>>
    /\ ReviewLevel = <<Str("Low"), Str("Medium"), Str("Unknown")>>

---------------------------------------------------------------------------
(* C3  Tax_Level mapping.                                                  *)

\* C3: map_tax maps every numeric tax v <= 95.76 to Low, 95.76 < v <= 349.97
\* to Medium, v > 349.97 to High (both thresholds fall in the lower bucket),
\* and a value that is no number to Unknown.
C3_TaxLevelMapping ==
    Derived("ensure_tax_level", "Tax_Level") =>
        /\ Len(TaxLevel) = Len(SourceCol)
        /\ \A i \in 1..Len(SourceCol) :
              LET c == SourceCol[i] IN
              /\ (IsNumber(c) /\ NumberOf(c) <= 9576) => TaxLevel[i] = Str("Low")
              /\ (IsNumber(c) /\ 9576 < NumberOf(c) /\ NumberOf(c) <= 34997) =>
                     TaxLevel[i] = Str("Medium")
              /\ (IsNumber(c) /\ NumberOf(c) > 34997) => TaxLevel[i] = Str("High")
              /\ Unparseable(c) => TaxLevel[i] = Str("Unknown")

\* a call that labelled both thresholds and the value just above the upper one
C3_Witness ==
    /\ Derived("ensure_tax_level", "Tax_Level")
    /\ SourceCol = <<Num(9576), Num(34997), Num(34998)>>
    /\ TaxLevel = <<Str("Low"), Str("Medium"), Str("High")>>

---------------------------------------------------------------------------
(* C4  Column resolver.                                                    *)

\* the places of the candidate list that name a column of the frame
Hits == {i \in 1..Len(call.cands) : call.cands[i] \in columns(call.before)}

\* C4: first_col returns the candidate of smallest index that is a column of
\* the frame, and None exactly when no candidate is one; the frame is left
\* as it was.
C4_FirstMatchingCandidate ==
    call.fn = "first_col" =>
        /\ (call.result = NoCol) <=> (Hits = {})
        /\ Hits # {} =>
               \E i \in Hits : (\A j \in Hits : i <= j) /\ call.result = call.cands[i]
        /\ data = call.before

\* a call whose first candidate is absent and whose next two both exist
C4_Witness ==
    /\ call.fn = "first_col"
    /\ call.cands = <<"is_return", "return", "Return">>
    /\ columns(call.before) = {"Return", "return"}
    /\ call.result = "return"

---------------------------------------------------------------------------
(* C5  Derived fields of the feature record.                               *)

\* the widgets hold what their ranges admit
Admissible ==
    /\ widgets.Quantity \in 1..10
    /\ widgets.Unit_Price >= 0
    /\ widgets.Tax >= 0

\* C5: for every admissible input the feature record has Price = Quantity *
\* Unit_Price, total_price = Price + Tax, tax_ratio = Tax / (Price + 1), and
\* the nine inputs as supplied.
C5_DerivedFields ==
    /\ Admissible
    /\ pred.built =>
          LET r == pred.input_data IN
          /\ r.Price = widgets.Quantity * widgets.Unit_Price
          /\ r.total_price = r.Price + widgets.Tax
          /\ r.tax_ratio = [num |-> widgets.Tax, den |-> r.Price + 100]
          /\ r.Quantity = widgets.Quantity
          /\ r.Unit_Price = widgets.Unit_Price
          /\ r.Tax = widgets.Tax
          /\ r.Reviews = widgets.Reviews
          /\ r.Income = widgets.Income
          /\ r.product_category = widgets.product_category
          /\ r.Product_Subcategory = widgets.Product_Subcategory
          /\ r.Payment_mode = widgets.Payment_mode
          /\ r.city = widgets.city

\* the record of Quantity 3, Unit_Price 776.17, Tax 241.24: Price 2328.51,
\* total_price 2569.75, tax_ratio 241.24 / 2329.51
C5_Witness ==
    /\ pred.built
    /\ widgets.Quantity = 3 /\ widgets.Unit_Price = 77617 /\ widgets.Tax = 24124
    /\ widgets.city = "Mumbai" /\ pred.input_data.city = "Mumbai"
    /\ pred.input_data.Price = 232851
    /\ pred.input_data.total_price = 256975
    /\ pred.input_data.tax_ratio = [num |-> 24124, den |-> 232951]

---------------------------------------------------------------------------
(* C6  No division by zero.                                                *)

\* C6: no run ends in a division by zero: the denominator Price + 1 of
\* tax_ratio is at least 1, and Quantity 1, Unit_Price 0, Tax 0 give Price 0,
\* total_price 0 and tax_ratio 0.
C6_NoDivisionByZero ==
    /\ pred.error # "ZeroDivisionError"
    /\ pred.stage \in {"none", "stopped", "done"}
    /\ pred.built =>
          LET r == pred.input_data IN
          /\ r.tax_ratio.den >= 100
          /\ (widgets.Quantity = 1 /\ widgets.Unit_Price = 0 /\ widgets.Tax = 0) =>
                 /\ r.Price = 0
                 /\ r.total_price = 0
                 /\ r.tax_ratio = [num |-> 0, den |-> 100]

\* the record of Quantity 1, Unit_Price 0, Tax 0
C6_Witness ==
    /\ pred.built
    /\ widgets.Quantity = 1 /\ widgets.Unit_Price = 0 /\ widgets.Tax = 0
    /\ pred.input_data.Price = 0
    /\ pred.input_data.tax_ratio = [num |-> 0, den |-> 100]

---------------------------------------------------------------------------
(* C7  Skip-if-exists.                                                     *)

\* the ensure_* calls of the last run of the analytics page
Calls == {page.log[i] : i \in 1..Len(page.log)}

\* the run derived the columns of `data` without an exception
DerivedData == Len(page.steps) >= 4

\* C7: an ensure_* call on a frame that has the target column returns the
\* frame unchanged and computes nothing; in one run, whatever the view, each
\* derived column is computed at most once; and applying a derivation again
\* to the derived dataset changes nothing.
C7_SkipIfExists ==
    /\ \A e \in Calls : e.had => (e.same /\ ~e.computed /\ e.fault = "")
    /\ \A t \in {"Review_Level", "Income_Category", "Tax_Level"} :
          Cardinality({i \in 1..Len(page.log) :
                          page.log[i].target = t /\ page.log[i].computed}) <= 1
    /\ DerivedData =>
          /\ Truthy(page.cols.reviews_col) =>
                 ensure_review_level(data, page.cols.reviews_col).df = data
          /\ Truthy(page.cols.income_col) =>
                 \A o \in ensure_income_category(data, page.cols.income_col) :
                     o.fault = "" /\ o.df = data
          /\ Truthy(page.cols.tax_col) =>
                 ensure_tax_level(data, page.cols.tax_col).df = data

\* a run that computed Review_Level for `data` and whose view called
\* ensure_review_level again, on a copy that had the column
C7_Witness ==
    /\ page.stage = "done"
    /\ \E i, j \in 1..Len(page.log) :
          /\ i < j
          /\ page.log[i].fn = "ensure_review_level" /\ page.log[i].computed
          /\ page.log[j].fn = "ensure_review_level" /\ page.log[j].had
          /\ page.log[j].same /\ ~page.log[j].computed
    /\ \E e \in Calls : e.fn = "ensure_tax_level" /\ e.on = "data" /\ e.had
    /\ Len(data["Review_Level"]) > 0

---------------------------------------------------------------------------
(* C8  Every row gets an income category.                                  *)

\* C8: for any dataset ensure_income_category completes and gives every row,
\* also one with a negative or a missing income, one of the four labels.
C8_EveryRowLabelled ==
    Derived("ensure_income_category", "Income_Category") =>
        /\ call.fault = ""
        /\ \A i \in 1..Len(SourceCol) : Rank(IncomeCategory[i]) \in 1..4

---------------------------------------------------------------------------
(* C9  Degenerate top bin.                                                 *)

\* C9: with a dataset maximum below 99000 ensure_income_category completes
\* without a fault, labels every row by the three lower bins and gives no
\* row Very High.
C9_DegenerateTopBin ==
    (/\ Derived("ensure_income_category", "Income_Category")
     /\ 0 <= MaxIncome /\ MaxIncome < 9900000) =>
        /\ call.fault = ""
        /\ \A i \in 1..Len(SourceCol) :
              (SourceCol[i].k = "num" /\ 0 <= SourceCol[i].v) =>
                  Rank(IncomeCategory[i]) \in 1..3

---------------------------------------------------------------------------
(* C10  Income category is monotone.                                       *)

\* C10: within one dataset (one maximum), of two labelled incomes a <= b the
\* category of a does not rank above the category of b.
C10_IncomeMonotone ==
    (Derived("ensure_income_category", "Income_Category") /\ call.fault = "") =>
        \A i, j \in 1..Len(SourceCol) :
            (/\ Rank(IncomeCategory[i]) > 0 /\ Rank(IncomeCategory[j]) > 0
             /\ SourceCol[i].v <= SourceCol[j].v) =>
                Rank(IncomeCategory[i]) <= Rank(IncomeCategory[j])

\* a call that labelled three incomes in three different categories
C10_Witness ==
    /\ Derived("ensure_income_category", "Income_Category")
    /\ call.fault = ""
    /\ SourceCol = <<Num(5000000), Num(9000000), Num(20000000)>>
    /\ IncomeCategory = <<Str("Medium"), Str("High"), Str("Very High")>>

---------------------------------------------------------------------------
(* C11  The level derivations are total.                                   *)

\* the labels categorize_review and map_tax give
LevelLabels == {Str("Low"), Str("Medium"), Str("High"), Str("Unknown")}

\* C11: categorize_review and map_tax give every value, whatever its kind
\* (number, text, empty, null), a label and never raise; every value that is
\* not convertible to a number is labelled Unknown; an unparseable row does
\* not stop the derivation of the other rows.
C11_TotalDerivation ==
    /\ Derived("ensure_review_level", "Review_Level") =>
          /\ call.fault = ""
          /\ Len(ReviewLevel) = Len(SourceCol)
          /\ \A i \in 1..Len(SourceCol) :
                /\ ReviewLevel[i] \in LevelLabels
                /\ ~IsNumber(SourceCol[i]) => ReviewLevel[i] = Str("Unknown")
    /\ Derived("ensure_tax_level", "Tax_Level") =>
          /\ call.fault = ""
          /\ Len(TaxLevel) = Len(SourceCol)
          /\ \A i \in 1..Len(SourceCol) :
                /\ TaxLevel[i] \in LevelLabels
                /\ ~IsNumber(SourceCol[i]) => TaxLevel[i] = Str("Unknown")

---------------------------------------------------------------------------
(* C19  Review level is monotone in the rating.                            *)

\* C19: of two numeric ratings a <= b, integers or not, the level of a does
\* not rank above the level of b (Low < Medium < High); a rating strictly
\* between 2 and 3 does not rank above the level of rating 3.
C19_ReviewMonotone ==
    Derived("ensure_review_level", "Review_Level") =>
        \A i, j \in 1..Len(SourceCol) :
            (/\ IsNumber(SourceCol[i]) /\ IsNumber(SourceCol[j])
             /\ NumberOf(SourceCol[i]) <= NumberOf(SourceCol[j])) =>
                Rank(ReviewLevel[i]) <= Rank(ReviewLevel[j])

---------------------------------------------------------------------------
(* C12  Inference failure fails closed.                                    *)

\* the last run pressed Predict and predict_proba or predict raised
InferenceFailed == pred.clicked /\ (pred.proba = Raises \/ pred.label = Raises)

\* C12: when predict_proba or predict raises on a Predict request, an error
\* is reported, neither a probability nor RETURN / NO RETURN is displayed,
\* no inference call is made a second time and no default result is
\* substituted; also when predict_proba succeeded and only predict raised.
C12_FailsClosed ==
    InferenceFailed =>
        /\ pred.stage = "stopped"
        /\ pred.error = "Prediction error"
        /\ pred.shown_prob = NoRun.shown_prob
        /\ pred.result = ""
        /\ pred.proba_calls = 1
        /\ pred.predict_calls = IF pred.proba = Raises THEN 0 ELSE 1

\* a Predict request whose predict_proba answered 0.5 and whose predict raised
C12_Witness ==
    /\ pred.clicked
    /\ pred.proba = 50 /\ pred.label = Raises
    /\ pred.error = "Prediction error"
    /\ pred.result = ""

---------------------------------------------------------------------------
(* C15  The classifier is loaded once and only read.                       *)

\* C15: once load_model has succeeded, no later run, with or without a
\* Predict request, reads the artifact again or changes the cached
\* classifier.
C15_LoadedOnce ==
    [][model = "loaded" => (model' = "loaded" /\ ~pred'.read_artifact)]_vars

\* a prediction shown by a run that took the classifier from the cache
C15_Witness ==
    /\ model = "loaded"
    /\ ~pred.read_artifact
    /\ pred.clicked /\ pred.predict_calls = 1
    /\ pred.result = "NO RETURN"

---------------------------------------------------------------------------
(* C18  The displayed prediction outcome.                                  *)

\* the last run pressed Predict and both inference calls answered
InferenceSucceeded ==
    pred.clicked /\ pred.proba \in Probabilities /\ pred.label \in Labels

\* C18: after a successful inference exactly one of RETURN and NO RETURN is
\* shown; RETURN if and only if the label is 1 or the probability is at
\* least 0.5, NO RETURN only when the label is not 1 and the probability is
\* below 0.5.
C18_DisplayedOutcome ==
    InferenceSucceeded =>
        /\ pred.result \in {"RETURN", "NO RETURN"}
        /\ (pred.result = "RETURN") <=> (pred.label = 1 \/ pred.proba >= 50)
        /\ (pred.result = "NO RETURN") <=> (pred.label # 1 /\ pred.proba < 50)
        /\ pred.shown_prob = pred.proba

\* RETURN shown for a probability of 0.5 while the classifier's label is 0
C18_Witness ==
    /\ InferenceSucceeded
    /\ pred.label = 0 /\ pred.proba = 50
    /\ pred.result = "RETURN"

---------------------------------------------------------------------------
(* C20  Category and subcategory of the feature record.                    *)

\* the subcategories category_map lists for a category
Subcategories(c) == {category_map[c][i] : i \in 1..Len(category_map[c])}

\* C20: after any sequence of category and subcategory selections the
\* Product_Subcategory of the feature record is one category_map lists for
\* the record's product_category; the record is rebuilt from the current
\* inputs on every run, and the record given to the classifier is the
\* record previewed.
C20_SubcategoryConsistent ==
    /\ widgets.Product_Subcategory \in Subcategories(widgets.product_category)
    /\ pred.built =>
          /\ pred.input_data = input_data(widgets)
          /\ pred.input_data.product_category \in DOMAIN category_map
          /\ pred.input_data.Product_Subcategory \in
                 Subcategories(pred.input_data.product_category)
          /\ pred.proba_calls > 0 => pred.passed = pred.input_data

\* a Predict request on Footwear / Kids, a pair only a category change
\* followed by a subcategory selection produces
C20_Witness ==
    /\ pred.built /\ pred.proba_calls = 1
    /\ pred.input_data.product_category = "Footwear"
    /\ pred.input_data.Product_Subcategory = "Kids"
    /\ pred.passed = pred.input_data

---------------------------------------------------------------------------
(* C14  A load failure halts the render.                                   *)

\* the last run of a page could not read what it loads: nothing is cached
\* after it
DatasetLoadFailed == page.stage # "none" /\ ~cache.loaded
ModelLoadFailed == pred.stage # "none" /\ model = "unloaded"
InfoLoadFailed == info.stage # "none" /\ info.source \notin info.cached

\* C14: when reading the dataset fails the failure is reported and the run
\* resolves no column, derives nothing and aggregates no view; no partial or
\* empty dataset is used.  When loading the classifier fails the failure is
\* reported, no feature record is assembled and no inference is invoked.
C14_LoadFailureHalts ==
    /\ DatasetLoadFailed =>
          /\ page.stage = "stopped"
          /\ page.error = "Failed to load data"
          /\ page.steps = <<"load_data">>
          /\ page.cols = NoCols /\ page.log = <<>> /\ page.view = NoView
          /\ data = <<>>
    /\ ModelLoadFailed =>
          /\ pred.stage = "stopped"
          /\ pred.error = "Failed loading model"
          /\ ~pred.built
          /\ pred.proba_calls = 0 /\ pred.predict_calls = 0
          /\ pred.result = "" /\ pred.shown_prob = NoRun.shown_prob
    /\ InfoLoadFailed =>
          /\ info.stage \in {"stopped", "fault"}
          /\ info.error # ""
          /\ info.steps = <<"load_data">>
          /\ info.shape = NoInfo.shape

\* the three pages, each after a run whose load failed
C14_Witness ==
    /\ DatasetLoadFailed /\ page.error = "Failed to load data"
    /\ ModelLoadFailed /\ pred.error = "Failed loading model"
    /\ InfoLoadFailed /\ info.steps = <<"load_data">>

---------------------------------------------------------------------------
(* What the claims read of a run of the analytics page.                    *)

Univariate(q) == [analysis_type |-> "Univariate Analysis", question |-> q]
Multivariate(q) == [analysis_type |-> "Multivariate Analysis", question |-> q]

\* the columns, besides the return column, a view takes from the resolver
Needed(sel) ==
    CASE sel = Univariate(1) -> {"payment_col"}
      [] sel = Univariate(2) -> {"store_col"}
      [] sel = Univariate(3) -> {"income_col"}
      [] sel = Univariate(4) -> {"product_cat_col", "product_subcat_col"}
      [] sel = Univariate(5) -> {"reviews_col"}
      [] sel = Univariate(6) -> {"tax_col"}
      [] sel = Multivariate(1) -> {"product_subcat_col", "reviews_col"}
      [] sel = Multivariate(2) -> {"product_cat_col", "reviews_col"}
      [] sel = Multivariate(3) -> {"product_cat_col", "income_col"}
      [] sel = Multivariate(4) -> {"tax_col", "product_subcat_col"}
      [] OTHER -> {}

\* those of them the resolver did not find
Missing(sel, cols) == {c \in Needed(sel) : ~Truthy(cols[c])}

\* the run got past load_data / past the derived columns and the return
\* check, into the view
Loaded == Len(page.steps) >= 2
ViewRan == Len(page.steps) = 5

\* the dataset has a row of women's products
WomenRows ==
    /\ Truthy(page.cols.product_subcat_col)
    /\ \E i \in 1..Len(data[page.cols.product_subcat_col]) :
          women_mask(data, page.cols.product_subcat_col)[i]

\* the warnings that report a missing column
MissingColumnWarnings ==
    {"Payment_mode column not found.", "Store_type column not found.",
     "Income column not found.", "Category or Subcategory column missing.",
     "Reviews column not found.", "Tax column not found.",
     "Product_Subcategory column not found. Cannot filter women's products.",
     "Review_Level not available to calculate return by satisfaction level.",
     "Missing columns for this analysis",
     "Tax column or Product_Subcategory column missing."}

---------------------------------------------------------------------------
(* C13  A missing column is reported, not a crash.                         *)

\* a column the selected view requires is absent: the resolver did not find
\* it (the women's view does without the rating column when the dataset
\* carries Review_Level)
RequiredAbsent ==
    \E c \in Missing(page.sel, page.cols) :
        ~(page.sel = Multivariate(1) /\ c = "reviews_col" /\ "Review_Level" \in columns(data))

\* C13: for every view and every dataset, a run that loaded the dataset
\* shows an error and stops before any view when the return column is
\* absent, and otherwise, when a column the selected view requires is
\* absent, shows a warning and groups and aggregates nothing; it does not
\* raise.
C13_MissingColumnReported ==
    Loaded =>
        /\ ~Truthy(page.cols.return_col) =>
              /\ page.stage = "stopped"
              /\ page.error = "No 'Return' column found in the dataset."
              /\ page.view = NoView
        /\ (Truthy(page.cols.return_col) /\ page.sel # NoSel /\ RequiredAbsent) =>
              /\ page.stage = "done"
              /\ page.view.status = "warning"
              /\ page.view.msg \in MissingColumnWarnings
              /\ page.view.keys = <<>> /\ page.view.table = {}

---------------------------------------------------------------------------
(* C16  Schema drift of the return column.                                 *)

\* C16: whichever accepted name the return column has, every view whose
\* other columns are present groups, averages and orders on the resolved
\* return column and completes without a fault; the view by tax level and
\* subcategory sorts by the resolved return column.
C16_ReturnDriftTolerated ==
    (/\ ViewRan
     /\ Missing(page.sel, page.cols) = {}
     /\ page.sel = Multivariate(1) => WomenRows) =>
        /\ page.stage = "done"
        /\ page.view.status = "computed"
        /\ page.view.val = page.cols.return_col
        /\ \A k \in 1..Len(page.view.sort_by) :
              page.view.sort_by[k] \in
                  {page.view.keys[j] : j \in 1..Len(page.view.keys)} \cup {page.cols.return_col}

---------------------------------------------------------------------------
(* C17  A view is skipped only when the resolver found no column.          *)

\* C17: a view every column of which first_col resolved to a column of the
\* dataset is computed, not skipped with a missing-column warning; also the
\* views of reviews, and of income level, by product category.
C17_SkippedOnlyWhenUnresolved ==
    (ViewRan /\ Missing(page.sel, page.cols) = {}) =>
        ~(page.view.status = "warning" /\ page.view.msg \in MissingColumnWarnings)

===========================================================================
